---- MODULE Spec2Model ----
(***************************************************************************)
(* Model of the Elasticsearch exporter's collection cycle                  *)
(* (elasticsearch_exporter.go): the metric catalog, the four families of   *)
(* metric vectors built by NewExporter, Exporter.Collect as a sequence of  *)
(* steps under e.mutex, and the goroutine that serialises the metrics a    *)
(* pull received on its channel.                                           *)
(*                                                                         *)
(* Values: every upstream field is an integer (int64) and every exposed    *)
(* value is float64(<integer expression>), which is exact for the small    *)
(* integers used here, so an exposed value is modelled by that integer.    *)
(* A channel of prometheus.Metric carries references: a metric's value is  *)
(* read when the receiver serialises it, not when Collect sends it.        *)
(***************************************************************************)
EXTENDS Integers, Sequences, FiniteSets, TLC

(***************************************************************************)
(* Bounds                                                                  *)
(***************************************************************************)
\* number of pulls (invocations of Collect, each with its own channel)
NumPulls == 2

Pulls == 1..NumPulls

(***************************************************************************)
(* The metric catalog                                                      *)
(***************************************************************************)
gaugeMetrics ==
    { "cluster_health_status", "cluster_health_timed_out",
      "cluster_number_of_nodes_total", "cluster_number_of_data_nodes_total",
      "indices_fielddata_memory_size_bytes", "indices_filter_cache_memory_size_bytes",
      "indices_query_cache_memory_size_bytes", "indices_request_cache_memory_size_bytes",
      "indices_docs", "indices_docs_deleted", "indices_store_size_bytes",
      "indices_segments_memory_bytes", "indices_segments_count",
      "process_cpu_percent", "process_mem_resident_size_bytes",
      "process_mem_share_size_bytes", "process_mem_virtual_size_bytes",
      "process_open_files_count", "process_max_files_count" }

counterMetrics ==
    { "indices_fielddata_evictions", "indices_filter_cache_evictions",
      "indices_query_cache_evictions", "indices_request_cache_evictions",
      "indices_flush_total", "indices_flush_time_ms_total",
      "transport_rx_packets_total", "transport_rx_size_bytes_total",
      "transport_tx_packets_total", "transport_tx_size_bytes_total",
      "indices_store_throttle_time_ms_total", "indices_indexing_index_total",
      "indices_indexing_index_time_ms_total", "indices_merges_total",
      "indices_merges_total_docs_total", "indices_merges_total_size_bytes_total",
      "indices_merges_total_time_ms_total", "indices_refresh_total",
      "indices_refresh_total_time_ms_total" }

\* name -> the extra labels of the vector (VecInfo.labels)
counterVecMetrics ==
    [ jvm_gc_collection_seconds_count |-> <<"gc">>,
      jvm_gc_collection_seconds_sum   |-> <<"gc">>,
      process_cpu_time_seconds_sum    |-> <<"type">>,
      thread_pool_completed_count     |-> <<"type">>,
      thread_pool_rejected_count      |-> <<"type">> ]

gaugeVecMetrics ==
    [ breakers_estimated_size_bytes |-> <<"breaker">>,
      breakers_limit_size_bytes     |-> <<"breaker">>,
      jvm_memory_committed_bytes    |-> <<"area">>,
      jvm_memory_used_bytes         |-> <<"area">>,
      jvm_memory_max_bytes          |-> <<"area">>,
      thread_pool_active_count      |-> <<"type">>,
      thread_pool_largest_count     |-> <<"type">>,
      thread_pool_queue_count       |-> <<"type">>,
      thread_pool_threads_count     |-> <<"type">> ]

\* the four families of Exporter, by field name
Families == {"gauges", "gaugeVecs", "counters", "counterVecs"}

\* the label names a vector of a family is created with
LabelNames(fam, name) ==
    CASE fam = "counterVecs" -> <<"cluster", "node">> \o counterVecMetrics[name]
      [] fam = "gaugeVecs"   -> <<"cluster", "node">> \o gaugeVecMetrics[name]
      [] OTHER               -> <<"cluster", "node">>

\* a vector with no children: label values -> child
EmptyVec == <<>>

\* the maps NewExporter builds: one empty vector per catalog name
NewExporter ==
    [ counterVecs |-> [n \in DOMAIN counterVecMetrics |-> EmptyVec],
      gaugeVecs   |-> [n \in DOMAIN gaugeVecMetrics |-> EmptyVec],
      counters    |-> [n \in counterMetrics |-> EmptyVec],
      gauges      |-> [n \in gaugeMetrics |-> EmptyVec] ]

(***************************************************************************)
(* Upstream documents.  A node-stats document is what json.Unmarshal       *)
(* yields into NodeStatsResponse; the fields are those Collect reads.      *)
(* MkNode gives every field of a node its own value (b + k, k distinct),   *)
(* so that two fields are never equal by accident.                         *)
(***************************************************************************)
MkNode(host, b, gcs, brs, pools) ==
    [ Host |-> host,
      JVM |-> [ GC  |-> [ Collectors |->
                            [c \in gcs |-> [ CollectionCount |-> b + 1,
                                             CollectionTime  |-> b + 502 ]] ],
                Mem |-> [ HeapCommitted    |-> b + 3,
                          HeapUsed         |-> b + 4,
                          HeapMax          |-> b + 5,
                          NonHeapCommitted |-> b + 6,
                          NonHeapUsed      |-> b + 7 ] ],
      Breakers   |-> [x \in brs |-> [ EstimatedSize |-> b + 8, LimitSize |-> b + 9 ]],
      ThreadPool |-> [x \in pools |-> [ Completed |-> b + 10, Rejected |-> b + 11,
                                        Active |-> b + 12 ]],
      Indices |-> [ FieldData   |-> [ MemorySize |-> b + 13, Evictions |-> b + 14 ],
                    FilterCache |-> [ MemorySize |-> b + 15, Evictions |-> b + 16 ],
                    QueryCache  |-> [ MemorySize |-> b + 17, Evictions |-> b + 18 ],
                    Docs        |-> [ Count |-> b + 19, Deleted |-> b + 20 ],
                    Segments    |-> [ Memory |-> b + 21, Count |-> b + 22 ],
                    Store       |-> [ Size |-> b + 23, ThrottleTime |-> b + 24 ],
                    Flush       |-> [ Total |-> b + 25, Time |-> b + 26 ],
                    Indexing    |-> [ IndexTime |-> b + 27, IndexTotal |-> b + 28 ],
                    Merges      |-> [ TotalTime |-> b + 29, TotalSize |-> b + 30,
                                      Total |-> b + 31 ],
                    Refresh     |-> [ TotalTime |-> b + 32, Total |-> b + 33 ] ],
      Transport |-> [ RxCount |-> b + 34, RxSize |-> b + 35,
                      TxCount |-> b + 36, TxSize |-> b + 37 ],
      Process |-> [ CPU    |-> [ Percent |-> b + 38, Total |-> b + 539,
                                 Sys |-> b + 540, User |-> b + 541 ],
                    Memory |-> [ Resident |-> b + 42, Share |-> b + 43,
                                 TotalVirtual |-> b + 44 ],
                    OpenFD |-> b + 45 ] ]

\* two nodes on two hosts
DocTwoNodes ==
    [ ClusterName |-> "es",
      Nodes |-> [ n1 |-> MkNode("a", 3000, {"young", "old"}, {"fielddata"}, {"bulk", "search"}),
                  n2 |-> MkNode("b", 5000, {"young"}, {"fielddata"}, {"bulk"}) ] ]

\* node b has left, node a was restarted (every counter is lower) and has
\* other collectors and pools
DocRestarted ==
    [ ClusterName |-> "es",
      Nodes |-> [ n1 |-> MkNode("a", 1000, {"G1"}, {"request"}, {"index"}) ] ]

\* two nodes running on the same host
DocSameHost ==
    [ ClusterName |-> "es",
      Nodes |-> [ n1 |-> MkNode("a", 7000, {"young"}, {"fielddata"}, {"bulk"}),
                  n2 |-> MkNode("a", 9000, {"young"}, {"fielddata"}, {"bulk"}) ] ]

\* one node whose collector reports a collection time of 2500 ms
DocMillis ==
    [ ClusterName |-> "es",
      Nodes |-> [ n1 |-> MkNode("a", 1998, {"young"}, {"fielddata"}, {"bulk"}) ] ]

\* a document without nodes
DocNoNodes == [ ClusterName |-> "es", Nodes |-> <<>> ]

\* The bodies the node-stats endpoint may return, by name; Garbage is a body
\* json.Unmarshal rejects.
NodeStatsOf ==
    [ twoNodes |-> DocTwoNodes, restarted |-> DocRestarted, sameHost |-> DocSameHost,
      millis |-> DocMillis, noNodes |-> DocNoNodes ]

Garbage == "garbage"

NodeBodies == {"twoNodes", "restarted", "sameHost", Garbage}

HealthGreen ==
    [ ClusterName |-> "es", Status |-> "green", TimedOut |-> FALSE,
      NumberOfNodes |-> 2, NumberOfDataNodes |-> 1 ]

HealthRed ==
    [ ClusterName |-> "es", Status |-> "red", TimedOut |-> TRUE,
      NumberOfNodes |-> 4, NumberOfDataNodes |-> 3 ]

HealthYellow ==
    [ ClusterName |-> "es", Status |-> "yellow", TimedOut |-> FALSE,
      NumberOfNodes |-> 3, NumberOfDataNodes |-> 2 ]

\* a status the switch has no case for
HealthPurple ==
    [ ClusterName |-> "es", Status |-> "purple", TimedOut |-> TRUE,
      NumberOfNodes |-> 5, NumberOfDataNodes |-> 4 ]

\* a document without a status: the field keeps its zero value
HealthNoStatus ==
    [ ClusterName |-> "es", Status |-> "", TimedOut |-> FALSE,
      NumberOfNodes |-> 6, NumberOfDataNodes |-> 5 ]

\* The bodies the cluster-health endpoint may return, by name.
HealthOf ==
    [ green |-> HealthGreen, red |-> HealthRed, yellow |-> HealthYellow,
      purple |-> HealthPurple, noStatus |-> HealthNoStatus ]

HealthBodies == {"green", "red", Garbage}

\* every cluster-health body, one per status
StatusBodies == DOMAIN HealthOf \cup {Garbage}

\* json.Unmarshal(body, &v): err = nil exactly for the bodies that decode
UnmarshalErr(body, docs) == body \notin DOMAIN docs

\* a local variable that holds no response, body or document
None == "none"

(***************************************************************************)
(* The registry: the four families of vectors and the metric objects.      *)
(* A vector maps label values to a child; a child is a reference (an id)   *)
(* into heap, which holds the child's current value.  vec.Reset() drops    *)
(* the children from the vector; a child that was handed out keeps its     *)
(* value.                                                                  *)
(***************************************************************************)
\* a Reset that drops nothing
ResetKeepsChildren(vec) == vec

\* vec.Reset()
Reset(vec) == EmptyVec

\* reset loops that reset nothing
ResetAllSkipped(m) == m

\* for _, vec := range m { vec.Reset() }
ResetAll(m) == [n \in DOMAIN m |-> Reset(m[n])]

\* a Set that adds to the value instead of overwriting it
SetAccumulates(prev, v) == prev + v

\* Gauge.Set / Counter.Set on a child whose value is prev: the value is
\* overwritten with v
Set(prev, v) == v

\* a call that passes the host before the cluster name
OpHostFirst(fam, name, lv, v) ==
    [fam |-> fam, name |-> name, lv |-> <<lv[2], lv[1]>> \o SubSeq(lv, 3, Len(lv)), v |-> v]

\* one call e.<fam>[name].WithLabelValues(lv...).Set(v)
Op(fam, name, lv, v) == [fam |-> fam, name |-> name, lv |-> lv, v |-> v]

\* vec.WithLabelValues(lv...): the child of vec for lv, created (with value
\* 0) when vec has none; the child pull p creates in vector <fam, name> is
\* <<p, fam, name, lv>>
WithLabelValues(vec, p, fam, name, lv) ==
    IF lv \in DOMAIN vec THEN vec[lv] ELSE <<p, fam, name, lv>>

\* the successive Sets of the values vs on a child whose value is prev
RECURSIVE SetAll(_, _)
SetAll(prev, vs) ==
    IF vs = <<>> THEN prev ELSE SetAll(Set(prev, Head(vs)), Tail(vs))

\* The calls ops made in order by pull p, as one update: every vector gains
\* the children the calls create, and every child a call addresses takes the
\* values set on it, in the order of the calls.
ApplyOps(reg, p, ops) ==
    LET lvs(fam, name) ==
            { ops[i].lv : i \in { k \in DOMAIN ops : ops[k].fam = fam /\ ops[k].name = name } }
        vecAfter(fam, name) ==
            LET vec == reg[fam][name]
            IN  [lv \in DOMAIN vec \cup lvs(fam, name) |-> WithLabelValues(vec, p, fam, name, lv)]
        famAfter(fam) == [name \in DOMAIN reg[fam] |-> vecAfter(fam, name)]
        child(op) == WithLabelValues(reg[op.fam][op.name], p, op.fam, op.name, op.lv)
        touched == { child(ops[i]) : i \in DOMAIN ops }
        valuesOn(id) ==
            LET sel == SelectSeq(ops, LAMBDA o : o.fam = id[2] /\ o.name = id[3] /\ o.lv = id[4])
            IN  [i \in DOMAIN sel |-> sel[i].v]
        before(id) ==
            IF id[4] \in DOMAIN reg[id[2]][id[3]] THEN reg.heap[id] ELSE 0
    IN  [ gauges      |-> famAfter("gauges"),
          gaugeVecs   |-> famAfter("gaugeVecs"),
          counters    |-> famAfter("counters"),
          counterVecs |-> famAfter("counterVecs"),
          heap        |-> [id \in touched |-> SetAll(before(id), valuesOn(id))] @@ reg.heap ]

\* the keys of a map in some order (range over a Go map)
RECURSIVE SeqOf(_)
SeqOf(S) ==
    IF S = {} THEN <<>>
    ELSE LET x == CHOOSE y \in S : TRUE IN <<x>> \o SeqOf(S \ {x})

\* all orders in which range may visit the keys S
Orders(S) ==
    { s \in [1..Cardinality(S) -> S] : \A i, j \in 1..Cardinality(S) : i # j => s[i] # s[j] }

(***************************************************************************)
(* The populate phase of Collect for one node: the calls of the body of    *)
(* "for _, stats := range allStats.Nodes", in source order.                *)
(***************************************************************************)
GCOps(cn, stats) ==
    LET m    == stats.JVM.GC.Collectors
        keys == SeqOf(DOMAIN m)
        f[i \in 0..Len(keys)] ==
            IF i = 0 THEN <<>>
            ELSE LET collector == keys[i]
                     gcstats   == m[collector]
                 IN  f[i - 1] \o
                     << Op("counterVecs", "jvm_gc_collection_seconds_count",
                           <<cn, stats.Host, collector>>, gcstats.CollectionCount),
                        Op("counterVecs", "jvm_gc_collection_seconds_sum",
                           <<cn, stats.Host, collector>>, gcstats.CollectionTime \div 1000) >>
    IN  f[Len(keys)]

\* breaker statements that pass no breaker name
BreakerOpsNoBreakerLabel(cn, stats) ==
    LET m    == stats.Breakers
        keys == SeqOf(DOMAIN m)
        f[i \in 0..Len(keys)] ==
            IF i = 0 THEN <<>>
            ELSE f[i - 1] \o
                 << Op("gaugeVecs", "breakers_estimated_size_bytes",
                       <<cn, stats.Host>>, m[keys[i]].EstimatedSize),
                    Op("gaugeVecs", "breakers_limit_size_bytes",
                       <<cn, stats.Host>>, m[keys[i]].LimitSize) >>
    IN  f[Len(keys)]

BreakerOps(cn, stats) ==
    LET m    == stats.Breakers
        keys == SeqOf(DOMAIN m)
        f[i \in 0..Len(keys)] ==
            IF i = 0 THEN <<>>
            ELSE LET breaker == keys[i]
                     bstats  == m[breaker]
                 IN  f[i - 1] \o
                     << Op("gaugeVecs", "breakers_estimated_size_bytes",
                           <<cn, stats.Host, breaker>>, bstats.EstimatedSize),
                        Op("gaugeVecs", "breakers_limit_size_bytes",
                           <<cn, stats.Host, breaker>>, bstats.LimitSize) >>
    IN  f[Len(keys)]

ThreadPoolOps(cn, stats) ==
    LET m    == stats.ThreadPool
        keys == SeqOf(DOMAIN m)
        f[i \in 0..Len(keys)] ==
            IF i = 0 THEN <<>>
            ELSE LET pool   == keys[i]
                     pstats == m[pool]
                     lv     == <<cn, stats.Host, pool>>
                 IN  f[i - 1] \o
                     << Op("counterVecs", "thread_pool_completed_count", lv, pstats.Completed),
                        Op("counterVecs", "thread_pool_rejected_count", lv, pstats.Rejected),
                        Op("gaugeVecs", "thread_pool_active_count", lv, pstats.Active),
                        Op("gaugeVecs", "thread_pool_threads_count", lv, pstats.Active),
                        Op("gaugeVecs", "thread_pool_largest_count", lv, pstats.Active),
                        Op("gaugeVecs", "thread_pool_queue_count", lv, pstats.Active) >>
    IN  f[Len(keys)]

JVMMemOps(cn, stats) ==
    LET mem == stats.JVM.Mem
        h   == stats.Host
    IN  << Op("gaugeVecs", "jvm_memory_committed_bytes", <<cn, h, "heap">>, mem.HeapCommitted),
           Op("gaugeVecs", "jvm_memory_used_bytes", <<cn, h, "heap">>, mem.HeapUsed),
           Op("gaugeVecs", "jvm_memory_max_bytes", <<cn, h, "heap">>, mem.HeapMax),
           Op("gaugeVecs", "jvm_memory_committed_bytes", <<cn, h, "non-heap">>, mem.NonHeapCommitted),
           Op("gaugeVecs", "jvm_memory_used_bytes", <<cn, h, "non-heap">>, mem.NonHeapUsed) >>

IndicesOps(cn, stats) ==
    LET ix == stats.Indices
        lv == <<cn, stats.Host>>
    IN  << Op("gauges", "indices_fielddata_memory_size_bytes", lv, ix.FieldData.MemorySize),
           Op("counters", "indices_fielddata_evictions", lv, ix.FieldData.Evictions),
           Op("gauges", "indices_filter_cache_memory_size_bytes", lv, ix.FilterCache.MemorySize),
           Op("counters", "indices_filter_cache_evictions", lv, ix.FilterCache.Evictions),
           Op("gauges", "indices_query_cache_memory_size_bytes", lv, ix.QueryCache.MemorySize),
           Op("counters", "indices_query_cache_evictions", lv, ix.QueryCache.Evictions),
           Op("gauges", "indices_request_cache_memory_size_bytes", lv, ix.QueryCache.MemorySize),
           Op("counters", "indices_request_cache_evictions", lv, ix.QueryCache.Evictions),
           Op("gauges", "indices_docs", lv, ix.Docs.Count),
           Op("gauges", "indices_docs_deleted", lv, ix.Docs.Deleted),
           Op("gauges", "indices_segments_memory_bytes", lv, ix.Segments.Memory),
           Op("gauges", "indices_segments_count", lv, ix.Segments.Count),
           Op("gauges", "indices_store_size_bytes", lv, ix.Store.Size),
           Op("counters", "indices_store_throttle_time_ms_total", lv, ix.Store.ThrottleTime),
           Op("counters", "indices_flush_total", lv, ix.Flush.Total),
           Op("counters", "indices_flush_time_ms_total", lv, ix.Flush.Time),
           Op("counters", "indices_indexing_index_time_ms_total", lv, ix.Indexing.IndexTime),
           Op("counters", "indices_indexing_index_total", lv, ix.Indexing.IndexTotal),
           Op("counters", "indices_merges_total_time_ms_total", lv, ix.Merges.TotalTime),
           Op("counters", "indices_merges_total_size_bytes_total", lv, ix.Merges.TotalSize),
           Op("counters", "indices_merges_total", lv, ix.Merges.Total),
           Op("counters", "indices_refresh_total_time_ms_total", lv, ix.Refresh.TotalTime),
           Op("counters", "indices_refresh_total", lv, ix.Refresh.Total) >>

TransportOps(cn, stats) ==
    LET t  == stats.Transport
        lv == <<cn, stats.Host>>
    IN  << Op("counters", "transport_rx_packets_total", lv, t.RxCount),
           Op("counters", "transport_rx_size_bytes_total", lv, t.RxSize),
           Op("counters", "transport_tx_packets_total", lv, t.TxCount),
           Op("counters", "transport_tx_size_bytes_total", lv, t.TxSize) >>

ProcessOps(cn, stats) ==
    LET pr == stats.Process
        h  == stats.Host
        lv == <<cn, h>>
    IN  << Op("gauges", "process_cpu_percent", lv, pr.CPU.Percent),
           Op("gauges", "process_mem_resident_size_bytes", lv, pr.Memory.Resident),
           Op("gauges", "process_mem_share_size_bytes", lv, pr.Memory.Share),
           Op("gauges", "process_mem_virtual_size_bytes", lv, pr.Memory.TotalVirtual),
           Op("gauges", "process_open_files_count", lv, pr.OpenFD),
           Op("counterVecs", "process_cpu_time_seconds_sum", <<cn, h, "total">>, pr.CPU.Total \div 1000),
           Op("counterVecs", "process_cpu_time_seconds_sum", <<cn, h, "sys">>, pr.CPU.Sys \div 1000),
           Op("counterVecs", "process_cpu_time_seconds_sum", <<cn, h, "user">>, pr.CPU.User \div 1000) >>

NodeOps(cn, stats) ==
    GCOps(cn, stats) \o BreakerOps(cn, stats) \o ThreadPoolOps(cn, stats)
      \o JVMMemOps(cn, stats) \o IndicesOps(cn, stats) \o TransportOps(cn, stats)
      \o ProcessOps(cn, stats)

\* the calls of "for _, stats := range allStats.Nodes { ... }", the nodes
\* visited in order
AllNodeOps(doc, order) ==
    LET f[i \in 0..Len(order)] ==
            IF i = 0 THEN <<>>
            ELSE f[i - 1] \o NodeOps(doc.ClusterName, doc.Nodes[order[i]])
    IN  f[Len(order)]

PopulateNodes(reg, p, doc, order) ==
    CHOOSE r \in { ApplyOps(reg, p, ops) : ops \in {AllNodeOps(doc, order)} } : TRUE

(***************************************************************************)
(* The cluster-health part of Collect.                                     *)
(***************************************************************************)
\* a switch whose default case reports a value of its own
HealthStatusDefaultThree(status) ==
    CASE status = "green"  -> 0
      [] status = "yellow" -> 1
      [] status = "red"    -> 2
      [] OTHER             -> 3

\* switch clusterStat.Status
HealthStatus(status) ==
    CASE status = "green"  -> 0
      [] status = "yellow" -> 1
      [] status = "red"    -> 2
      [] OTHER             -> 0

HealthOps(clusterStat) ==
    LET lv == <<clusterStat.ClusterName, "unknown">>
    IN  << Op("gauges", "cluster_health_status", lv, HealthStatus(clusterStat.Status)),
           Op("gauges", "cluster_health_timed_out", lv, IF clusterStat.TimedOut THEN 1 ELSE 0),
           Op("gauges", "cluster_number_of_nodes_total", lv, clusterStat.NumberOfNodes),
           Op("gauges", "cluster_number_of_data_nodes_total", lv, clusterStat.NumberOfDataNodes) >>

PopulateHealth(reg, p, clusterStat) == ApplyOps(reg, p, HealthOps(clusterStat))

(***************************************************************************)
(* Report: vec.Collect(ch) sends every child of the vector.  A sent metric *)
(* is a reference: the vector's name, the label values and the child.      *)
(***************************************************************************)
Children(reg, fam) ==
    { [fam |-> fam, name |-> n, lv |-> lv, id |-> reg[fam][n][lv]] :
        <<n, lv>> \in UNION { {n} \X DOMAIN reg[fam][n] : n \in DOMAIN reg[fam] } }

(***************************************************************************)
(* State                                                                   *)
(***************************************************************************)
VARIABLES
    mutex,        \* e.mutex: the set of pulls that hold it
    gauges,       \* e.gauges:      name -> vector
    gaugeVecs,    \* e.gaugeVecs:   name -> vector
    counters,     \* e.counters:    name -> vector
    counterVecs,  \* e.counterVecs: name -> vector
    heap,         \* the metric objects: reference -> current value (e.up included)
    pc,           \* pull -> the statement of Collect it is at
    body,         \* pull -> local "body" (a name of NodeBodies)
    allStats,     \* pull -> local "allStats" (a name of NodeStatsOf)
    cBody,        \* pull -> local "cBody" (a name of HealthBodies)
    clusterStat,  \* pull -> local "clusterStat" (a name of HealthOf)
    ch,           \* pull -> the metrics sent on its channel and not yet serialised
    out,          \* pull -> the messages serialised into its response so far
    path,         \* history: pull -> the exit path its cycle took
    upBy,         \* history: pull -> the value of e.up after its cycle last set it
    serial,       \* history: the pulls have so far run one after the other, in the
                  \* order of their numbers: each locked when the responses of
                  \* the pulls before it were complete
    fetches       \* history: pull -> the number of requests its cycle has made to
                  \* the node-stats endpoint and to the cluster-health endpoint

vars == << mutex, gauges, gaugeVecs, counters, counterVecs, heap, pc, body, allStats,
           cBody, clusterStat, ch, out, path, upBy, serial, fetches >>

\* the reference to the gauge e.up
UpId == <<0, "", "up", <<>>>>

UpRef == [fam |-> "", name |-> "up", lv |-> <<>>, id |-> UpId]

\* the current value of e.up
up == heap[UpId]

\* the registry as one value, and its assignment
Registry ==
    [ gauges |-> gauges, gaugeVecs |-> gaugeVecs, counters |-> counters,
      counterVecs |-> counterVecs, heap |-> heap ]

Store(reg) ==
    /\ gauges' = reg.gauges
    /\ gaugeVecs' = reg.gaugeVecs
    /\ counters' = reg.counters
    /\ counterVecs' = reg.counterVecs
    /\ heap' = reg.heap

registryVars == << gauges, gaugeVecs, counters, counterVecs, heap >>
localVars == << body, allStats, cBody, clusterStat >>

\* the state NewExporter returns, with every pull about to call Collect
Init ==
    /\ mutex = {}
    /\ gauges = NewExporter.gauges
    /\ gaugeVecs = NewExporter.gaugeVecs
    /\ counters = NewExporter.counters
    /\ counterVecs = NewExporter.counterVecs
    /\ heap = (UpId :> 0)
    /\ pc = [p \in Pulls |-> "lock"]
    /\ body = [p \in Pulls |-> None]
    /\ allStats = [p \in Pulls |-> None]
    /\ cBody = [p \in Pulls |-> None]
    /\ clusterStat = [p \in Pulls |-> None]
    /\ ch = [p \in Pulls |-> <<>>]
    /\ out = [p \in Pulls |-> <<>>]
    /\ path = [p \in Pulls |-> None]
    /\ upBy = [p \in Pulls |-> -1]
    /\ serial = TRUE
    /\ fetches = [p \in Pulls |-> [node |-> 0, health |-> 0]]

(***************************************************************************)
(* Exporter.Collect, statement by statement                                *)
(***************************************************************************)
\* a Lock that never waits
LockNeverWaits(m) == TRUE

\* e.mutex.Lock() returns only when nobody holds the mutex
CanLock(m) == m = {}

\* an Unlock that leaves the mutex held
ReleaseNothing(m, p) == m

\* e.mutex.Unlock()
Release(m, p) == m \ {p}

\* e.up.Set(v)
UpSet(h, v) == [h EXCEPT ![UpId] = Set(@, v)]

\* a failure path that leaves e.up as it was
FailUpUnchanged(h) == h

\* e.up.Set(0), on a failed fetch or read of the node stats
FailUp(h) == UpSet(h, 0)

\* deferred functions run in the order they were deferred
DeferredFIFO == <<"unlock", "sendUp">>

\* the deferred functions of Collect in the order they run at a return, last
\* deferred first: "ch <- e.up" (deferred second), then e.mutex.Unlock()
\* (deferred first)
Deferred == <<"sendUp", "unlock">>

\* the statement that follows the deferred function d: the next deferred
\* function, or the end of Collect
AfterDeferred(d) == IF d = Deferred[1] THEN Deferred[2] ELSE "done"

\* a return that runs e.mutex.Unlock() only
ReturnSkipsUp == "unlock"

\* the statement a return continues at: the deferred functions run, last
\* deferred first, so "ch <- e.up" runs before e.mutex.Unlock()
ReturnPC == Deferred[1]

\* a Get answered from an earlier result, without a request
RequestCached(n) == n

\* e.client.Get(uri) sends one request to the upstream; n counts them
Request(n) == n + 1

\* es.all: the exporter polls the local node only
allNodes == FALSE

\* !e.allNodes && len(allStats.Nodes) != 1
UnexpectedNodeCount(all, doc) == ~all /\ Cardinality(DOMAIN doc.Nodes) # 1

\* an unexpected number of nodes ends the cycle
NodeCountCheckReturns(unexpected) == IF unexpected THEN ReturnPC ELSE "populate"

\* the statement that follows the check of the number of nodes: the check
\* logs and nothing else, so the populate loop follows either way
AfterNodeCountCheck(unexpected) == "populate"

\* the response of every pull that has started is complete
Complete(q) == pc[q] = "done" /\ ch[q] = <<>>

Lock(p) ==
    /\ pc[p] = "lock"
    /\ UNCHANGED fetches
    /\ CanLock(mutex)
    /\ mutex' = mutex \cup {p}
    /\ pc' = [pc EXCEPT ![p] = "reset"]
    /\ serial' = (serial /\ \A q \in Pulls \ {p} : IF q < p THEN Complete(q) ELSE pc[q] = "lock")
    /\ UNCHANGED << registryVars, localVars, ch, out, path, upBy >>

\* the four reset loops
ResetMetrics(p) ==
    /\ pc[p] = "reset"
    /\ UNCHANGED fetches
    /\ gaugeVecs' = ResetAll(gaugeVecs)
    /\ counterVecs' = ResetAll(counterVecs)
    /\ gauges' = ResetAll(gauges)
    /\ counters' = ResetAll(counters)
    /\ pc' = [pc EXCEPT ![p] = "get"]
    /\ UNCHANGED << mutex, heap, localVars, ch, out, path, upBy, serial >>

\* a failed fetch or read of the node stats: e.up.Set(0); return
Fail(p, why) ==
    /\ heap' = FailUp(heap)
    /\ upBy' = [upBy EXCEPT ![p] = heap'[UpId]]
    /\ path' = [path EXCEPT ![p] = why]
    /\ pc' = [pc EXCEPT ![p] = ReturnPC]

\* resp, err := e.client.Get(e.URI); the request is made whatever the
\* registry holds; the dial and the connection deadline bound the call, so it
\* returns, with an error or a response
Get(p) ==
    /\ pc[p] = "get"
    /\ fetches' = [fetches EXCEPT ![p].node = Request(@)]
    /\ \/ Fail(p, "getErr")
       \/ /\ pc' = [pc EXCEPT ![p] = "read"]
          /\ UNCHANGED << heap, upBy, path >>
    /\ UNCHANGED << mutex, gauges, gaugeVecs, counters, counterVecs, localVars,
                    ch, out, serial >>

\* body, err := ioutil.ReadAll(resp.Body)
ReadAll(p, bodies) ==
    /\ pc[p] = "read"
    /\ UNCHANGED fetches
    /\ \/ /\ Fail(p, "readErr")
          /\ UNCHANGED body
       \/ /\ \E b \in bodies : body' = [body EXCEPT ![p] = b]
          /\ pc' = [pc EXCEPT ![p] = "unmarshal"]
          /\ UNCHANGED << heap, upBy, path >>
    /\ UNCHANGED << mutex, gauges, gaugeVecs, counters, counterVecs, allStats, cBody,
                    clusterStat, ch, out, serial >>

\* e.up.Set(1); err = json.Unmarshal(body, &allStats); on an error return;
\* then the check of the number of nodes
Unmarshal(p) ==
    /\ pc[p] = "unmarshal"
    /\ UNCHANGED fetches
    /\ heap' = UpSet(heap, 1)
    /\ upBy' = [upBy EXCEPT ![p] = heap'[UpId]]
    /\ IF UnmarshalErr(body[p], NodeStatsOf)
       THEN /\ path' = [path EXCEPT ![p] = "decodeErr"]
            /\ pc' = [pc EXCEPT ![p] = ReturnPC]
            /\ UNCHANGED allStats
       ELSE /\ allStats' = [allStats EXCEPT ![p] = body[p]]
            /\ pc' = [pc EXCEPT ![p] = AfterNodeCountCheck(
                                          UnexpectedNodeCount(allNodes, NodeStatsOf[body[p]]))]
            /\ UNCHANGED path
    /\ UNCHANGED << mutex, gauges, gaugeVecs, counters, counterVecs, body, cBody,
                    clusterStat, ch, out, serial >>

\* the loop over allStats.Nodes; range visits the nodes in any order
Populate(p) ==
    /\ pc[p] = "populate"
    /\ UNCHANGED fetches
    /\ \E order \in Orders(DOMAIN NodeStatsOf[allStats[p]].Nodes) :
          \E reg \in {PopulateNodes(Registry, p, NodeStatsOf[allStats[p]], order)} :
             Store(reg)
    /\ pc' = [pc EXCEPT ![p] = "cget"]
    /\ UNCHANGED << mutex, localVars, ch, out, path, upBy, serial >>

\* cresp, err := e.client.Get(e.ClusterURI)
ClusterGet(p) ==
    /\ pc[p] = "cget"
    /\ fetches' = [fetches EXCEPT ![p].health = Request(@)]
    /\ \/ /\ path' = [path EXCEPT ![p] = "cGetErr"]
          /\ pc' = [pc EXCEPT ![p] = ReturnPC]
       \/ /\ pc' = [pc EXCEPT ![p] = "cread"]
          /\ UNCHANGED path
    /\ UNCHANGED << mutex, registryVars, localVars, ch, out, upBy, serial >>

\* cBody, err := ioutil.ReadAll(cresp.Body)
ClusterReadAll(p, bodies) ==
    /\ pc[p] = "cread"
    /\ UNCHANGED fetches
    /\ \/ /\ path' = [path EXCEPT ![p] = "cReadErr"]
          /\ pc' = [pc EXCEPT ![p] = ReturnPC]
          /\ UNCHANGED cBody
       \/ /\ \E b \in bodies : cBody' = [cBody EXCEPT ![p] = b]
          /\ pc' = [pc EXCEPT ![p] = "cunmarshal"]
          /\ UNCHANGED path
    /\ UNCHANGED << mutex, registryVars, body, allStats, clusterStat, ch, out, upBy,
                    serial >>

\* err = json.Unmarshal(cBody, &clusterStat)
ClusterUnmarshal(p) ==
    /\ pc[p] = "cunmarshal"
    /\ UNCHANGED fetches
    /\ IF UnmarshalErr(cBody[p], HealthOf)
       THEN /\ path' = [path EXCEPT ![p] = "cDecodeErr"]
            /\ pc' = [pc EXCEPT ![p] = ReturnPC]
            /\ UNCHANGED clusterStat
       ELSE /\ clusterStat' = [clusterStat EXCEPT ![p] = cBody[p]]
            /\ pc' = [pc EXCEPT ![p] = "health"]
            /\ UNCHANGED path
    /\ UNCHANGED << mutex, registryVars, body, allStats, cBody, ch, out, upBy, serial >>

\* the switch on clusterStat.Status and the three sets after it
Health(p) ==
    /\ pc[p] = "health"
    /\ UNCHANGED fetches
    /\ \E reg \in {PopulateHealth(Registry, p, HealthOf[clusterStat[p]])} : Store(reg)
    /\ pc' = [pc EXCEPT ![p] = "report"]
    /\ UNCHANGED << mutex, localVars, ch, out, path, upBy, serial >>

\* the four loops of vec.Collect(ch), then the end of the function
Report(p) ==
    /\ pc[p] = "report"
    /\ UNCHANGED fetches
    /\ ch' = [ch EXCEPT ![p] = Append(@, Children(Registry, "counterVecs")
                                           \cup Children(Registry, "gaugeVecs")
                                           \cup Children(Registry, "counters")
                                           \cup Children(Registry, "gauges"))]
    /\ path' = [path EXCEPT ![p] = "ok"]
    /\ pc' = [pc EXCEPT ![p] = ReturnPC]
    /\ UNCHANGED << mutex, registryVars, localVars, out, upBy, serial >>

\* deferred: ch <- e.up
SendUp(p) ==
    /\ pc[p] = "sendUp"
    /\ UNCHANGED fetches
    /\ ch' = [ch EXCEPT ![p] = Append(@, {UpRef})]
    /\ pc' = [pc EXCEPT ![p] = AfterDeferred("sendUp")]
    /\ UNCHANGED << mutex, registryVars, localVars, out, path, upBy, serial >>

\* deferred: e.mutex.Unlock()
Unlock(p) ==
    /\ pc[p] = "unlock"
    /\ UNCHANGED fetches
    /\ mutex' = Release(mutex, p)
    /\ pc' = [pc EXCEPT ![p] = AfterDeferred("unlock")]
    /\ UNCHANGED << registryVars, localVars, ch, out, path, upBy, serial >>

(***************************************************************************)
(* The receiver of a pull's channel: it takes the next metrics sent and    *)
(* writes them into the response, reading each metric's value then.        *)
(***************************************************************************)
Written(refs, h) ==
    { [fam |-> r.fam, name |-> r.name, lv |-> r.lv, id |-> r.id, v |-> h[r.id]] : r \in refs }

Serialize(p) ==
    /\ ch[p] # <<>>
    /\ UNCHANGED fetches
    /\ out' = [out EXCEPT ![p] = Append(@, Written(Head(ch[p]), heap))]
    /\ ch' = [ch EXCEPT ![p] = Tail(@)]
    /\ UNCHANGED << mutex, registryVars, pc, localVars, path, upBy, serial >>

\* one step of pull p's Collect, the upstream answering with a body of nb
\* (node stats) or hb (cluster health)
CollectStep(p, nb, hb) ==
    \/ Lock(p) \/ ResetMetrics(p) \/ Get(p) \/ ReadAll(p, nb) \/ Unmarshal(p)
    \/ Populate(p) \/ ClusterGet(p) \/ ClusterReadAll(p, hb) \/ ClusterUnmarshal(p)
    \/ Health(p) \/ Report(p) \/ SendUp(p) \/ Unlock(p)

Next == \E p \in Pulls : CollectStep(p, NodeBodies, HealthBodies) \/ Serialize(p)

\* Any number of pulls in any interleaving, any upstream answers.
Spec == Init /\ [][Next]_vars

\* The pulls one after the other, numbered in the order they arrive: a pull
\* calls Collect when the responses of the pulls before it are complete.
\* Any upstream answers.
SerialNext == Next /\ serial'

SerialSpec == Init /\ [][SerialNext]_vars

\* Any interleaving of the pulls, against an upstream that answers with one
\* node-stats document, one cluster-health document, a body that does not
\* decode, or an error.
OneNodeBodies == {"restarted", Garbage}
OneHealthBodies == {"green", Garbage}

ConcNext == \E p \in Pulls : CollectStep(p, OneNodeBodies, OneHealthBodies) \/ Serialize(p)

ConcSpec == Init /\ [][ConcNext]_vars

\* The pulls one after the other against an upstream with one node, whose
\* cluster health has any status.
StatusNext ==
    /\ \E p \in Pulls : CollectStep(p, OneNodeBodies, StatusBodies) \/ Serialize(p)
    /\ serial'

StatusSpec == Init /\ [][StatusNext]_vars

\* The pulls one after the other against an upstream with one node, whose
\* collection time is 2500 ms.
MillisNext ==
    /\ \E p \in Pulls : CollectStep(p, {"millis", Garbage}, OneHealthBodies) \/ Serialize(p)
    /\ serial'

MillisSpec == Init /\ [][MillisNext]_vars

\* The pulls one after the other against an upstream whose nodes change
\* from one answer to the next.
LabelNext ==
    /\ \E p \in Pulls : CollectStep(p, {"twoNodes", "restarted"}, OneHealthBodies) \/ Serialize(p)
    /\ serial'

LabelSpec == Init /\ [][LabelNext]_vars

\* The pulls one after the other against an upstream that answers the
\* local-node request with no node or with two.
CountNext ==
    /\ \E p \in Pulls : CollectStep(p, {"noNodes", "twoNodes"}, OneHealthBodies) \/ Serialize(p)
    /\ serial'

CountSpec == Init /\ [][CountNext]_vars

\* Every statement of Collect returns, so a pull that can take a step
\* eventually takes one; the mutex is fair: a pull that finds it free again
\* and again eventually gets it.
FairSpec ==
    /\ ConcSpec
    /\ \A p \in Pulls : /\ WF_vars(CollectStep(p, OneNodeBodies, OneHealthBodies))
                        /\ SF_vars(Lock(p))


(***************************************************************************)
(* Notions the properties share                                            *)
(***************************************************************************)
\* pull p is between acquiring e.mutex and releasing it
InCollect(p) == pc[p] \notin {"lock", "done"}

\* everything pull p has sent on its channel so far, serialised or not
Messages(p) == out[p] \o ch[p]

\* the series a message holds: vector name and label values
Keys(msg) == { <<r.fam, r.name, r.lv>> : r \in msg }

UpKey == <<"", "up", <<>>>>

\* the series the registry holds
RegistryKeys == UNION { Keys(Children(Registry, fam)) : fam \in Families }

\* the number of times pull p has sent e.up
UpSends(p) == Cardinality({ i \in DOMAIN Messages(p) : UpKey \in Keys(Messages(p)[i]) })

\* the exposition of pull p: every serialised series and availability value
Exposition(p) ==
    UNION { { [fam |-> w.fam, name |-> w.name, lv |-> w.lv, v |-> w.v] : w \in out[p][i] } :
            i \in DOMAIN out[p] }

\* the statements of Collect after the populate loop
AfterPopulate == {"cget", "cread", "cunmarshal", "health", "report", "sendUp", "unlock"}

\* the documents pull p's cycle decoded
NodeDoc(p) == NodeStatsOf[allStats[p]]
HealthDoc(p) == HealthOf[clusterStat[p]]

\* the nodes of a document that run on host h
NodesOn(doc, h) == { n \in DOMAIN doc.Nodes : doc.Nodes[n].Host = h }

HealthGauges ==
    { "cluster_health_status", "cluster_health_timed_out",
      "cluster_number_of_nodes_total", "cluster_number_of_data_nodes_total" }

HealthErrs == {"cGetErr", "cReadErr", "cDecodeErr"}

(***************************************************************************)
(* C1                                                                      *)
(***************************************************************************)
\* C1: at most one Collect invocation is between acquiring e.mutex and
\* releasing it, so the steps of two cycles never interleave.
C1_MutualExclusion ==
    \A p, q \in Pulls : p # q => ~(InCollect(p) /\ InCollect(q))

\* one pull is populating while another waits for the mutex
C1_Witness ==
    \E p, q \in Pulls : p # q /\ pc[p] = "populate" /\ pc[q] = "lock"

(***************************************************************************)
(* C2                                                                      *)
(***************************************************************************)
\* the values pull p's cycle set on series <fam, name, lv>
ValuesSetBy(p, fam, name, lv) ==
    LET nodeOps == IF allStats[p] = None THEN <<>>
                   ELSE AllNodeOps(NodeDoc(p), SeqOf(DOMAIN NodeDoc(p).Nodes))
        ops     == IF clusterStat[p] = None THEN nodeOps
                   ELSE nodeOps \o HealthOps(HealthDoc(p))
    IN  { ops[i].v : i \in { k \in DOMAIN ops :
                              ops[k].fam = fam /\ ops[k].name = name /\ ops[k].lv = lv } }

\* C2: every value serialised in a pull's exposition, the series values and
\* the availability value, was produced by that pull's own cycle.
C2_NoTearing ==
    \A p \in Pulls : \A i \in DOMAIN out[p] : \A w \in out[p][i] :
        IF w.id = UpId
        THEN w.v = upBy[p]
        ELSE w.id[1] = p /\ w.v \in ValuesSetBy(p, w.fam, w.name, w.lv)

(***************************************************************************)
(* C3                                                                      *)
(***************************************************************************)
\* the memory areas for which a node's document has the field a
\* jvm_memory_* vector is about
MemField ==
    [ jvm_memory_committed_bytes |-> ("heap" :> "HeapCommitted") @@ ("non-heap" :> "NonHeapCommitted"),
      jvm_memory_used_bytes      |-> ("heap" :> "HeapUsed") @@ ("non-heap" :> "NonHeapUsed"),
      jvm_memory_max_bytes       |-> ("heap" :> "HeapMax") @@ ("non-heap" :> "NonHeapMax") ]

\* the extra label values a node's document has for the vector name
Dimension(name, stats) ==
    CASE name \in {"jvm_gc_collection_seconds_count", "jvm_gc_collection_seconds_sum"}
           -> DOMAIN stats.JVM.GC.Collectors
      [] name \in {"breakers_estimated_size_bytes", "breakers_limit_size_bytes"}
           -> DOMAIN stats.Breakers
      [] name \in {"thread_pool_completed_count", "thread_pool_rejected_count",
                   "thread_pool_active_count", "thread_pool_largest_count",
                   "thread_pool_queue_count", "thread_pool_threads_count"}
           -> DOMAIN stats.ThreadPool
      [] name \in DOMAIN MemField
           -> { a \in {"heap", "non-heap"} : MemField[name][a] \in DOMAIN stats.JVM.Mem }
      [] name = "process_cpu_time_seconds_sum"
           -> { "total", "sys", "user" }

\* the label tuples of vector <fam, name> that the documents doc and health
\* hold data for
Observed(fam, name, doc, health) ==
    IF name \in HealthGauges
    THEN { <<health.ClusterName, "unknown">> }
    ELSE IF fam \in {"gauges", "counters"}
    THEN { <<doc.ClusterName, doc.Nodes[n].Host>> : n \in DOMAIN doc.Nodes }
    ELSE UNION { { <<doc.ClusterName, doc.Nodes[n].Host, x>> : x \in Dimension(name, doc.Nodes[n]) } :
                 n \in DOMAIN doc.Nodes }

\* pull p's cycle has completed successfully and still holds the mutex
Succeeded(p) == path[p] = "ok" /\ InCollect(p)

\* the vectors pull p's cycle assigned a series of
Populated(p) ==
    LET ops == AllNodeOps(NodeDoc(p), SeqOf(DOMAIN NodeDoc(p).Nodes)) \o HealthOps(HealthDoc(p))
    IN  { ops[i].name : i \in DOMAIN ops }

\* C3: when a cycle completes successfully, every vector the cycle populates
\* holds exactly the label tuples of the latest fetch, one series each, and
\* no label tuple of a node absent from that fetch, whatever earlier cycles
\* stored; a vector the cycle does not populate holds no series; the cycle
\* sends exactly the series the registry holds.
C3_ExactlyLatestFetch ==
    \A p \in Pulls : Succeeded(p) =>
        /\ \A fam \in Families : \A name \in DOMAIN Registry[fam] :
              LET vec == Registry[fam][name]
              IN  /\ DOMAIN vec = IF name \in Populated(p)
                                   THEN Observed(fam, name, NodeDoc(p), HealthDoc(p))
                                   ELSE {}
                  /\ \A lv \in DOMAIN vec : name \notin HealthGauges =>
                        NodesOn(NodeDoc(p), lv[2]) # {}
                  /\ \A lv1, lv2 \in DOMAIN vec : vec[lv1] = vec[lv2] => lv1 = lv2
        /\ \E i \in DOMAIN Messages(p) :
              /\ Keys(Messages(p)[i]) = RegistryKeys
              /\ Cardinality(Messages(p)[i]) = Cardinality(RegistryKeys)

\* a cycle completes on a document without node b after a cycle that had
\* stored the series of node b
C3_Witness ==
    \E p, q \in Pulls :
        /\ pc[q] = "done" /\ path[q] = "ok" /\ allStats[q] = "twoNodes"
        /\ Succeeded(p) /\ allStats[p] = "restarted"
        /\ gauges["indices_docs"] # EmptyVec

(***************************************************************************)
(* C4                                                                      *)
(***************************************************************************)
FetchErrs == {"getErr", "readErr"}

\* C4: when the fetch or the read of the node stats fails, the cycle sets
\* availability to 0, sends nothing but e.up, and returns.
C4_FetchFailure ==
    \A p \in Pulls : path[p] \in FetchErrs =>
        /\ upBy[p] = 0
        /\ InCollect(p) => up = 0
        /\ \A i \in DOMAIN Messages(p) : Keys(Messages(p)[i]) = {UpKey}
        /\ Exposition(p) \subseteq { [fam |-> "", name |-> "up", lv |-> <<>>, v |-> 0] }
        /\ pc[p] = "done" => Len(Messages(p)) = 1

\* a fetch fails after a cycle that populated the registry, and the failed
\* pull's response is complete
C4_Witness ==
    \E p, q \in Pulls :
        /\ pc[q] = "done" /\ path[q] = "ok"
        /\ path[p] \in FetchErrs /\ Complete(p)
        /\ Exposition(p) # {}
        /\ \E w \in Exposition(q) : w.name = "indices_docs"

(***************************************************************************)
(* C5                                                                      *)
(***************************************************************************)
\* C5: when the node-stats body does not decode, the cycle reports
\* availability 0 and stops, as for a transport failure.
C5_DecodeFailureReportsDown ==
    \A p \in Pulls : path[p] = "decodeErr" =>
        /\ upBy[p] = 0
        /\ \A i \in DOMAIN Messages(p) : Keys(Messages(p)[i]) = {UpKey}

(***************************************************************************)
(* C6                                                                      *)
(***************************************************************************)
\* C6: when the node stats were fetched and decoded and the cluster-health
\* fetch, read or decode fails, the cycle's exposition has availability 1,
\* every node-scoped series populated from the node stats, and no
\* cluster-health series.
C6_HealthFailureKeepsNodeSeries ==
    \A p \in Pulls : (path[p] \in HealthErrs /\ pc[p] = "unlock") =>
        /\ upBy[p] = 1
        /\ UNION { Keys(Messages(p)[i]) : i \in DOMAIN Messages(p) }
             = RegistryKeys \cup {UpKey}
        /\ \A k \in RegistryKeys : k[2] \notin HealthGauges

(***************************************************************************)
(* C7                                                                      *)
(***************************************************************************)
\* C7: every cycle sends e.up exactly once, on every exit path, and the value
\* serialised for it is 0 or 1.
C7_UpExactlyOnce ==
    \A p \in Pulls :
        /\ pc[p] \in {"unlock", "done"} => UpSends(p) = 1
        /\ pc[p] \notin {"unlock", "done"} => UpSends(p) = 0
        /\ \A w \in Exposition(p) : w.name = "up" => w.v \in {0, 1}

\* two pulls whose responses are complete, one that failed to fetch and one
\* that succeeded
C7_Witness ==
    \E p, q \in Pulls :
        /\ Complete(p) /\ path[p] = "getErr"
        /\ Complete(q) /\ path[q] = "ok"

(***************************************************************************)
(* C8                                                                      *)
(***************************************************************************)
\* C8: every pull eventually completes: every pull, all of which start out
\* waiting for the mutex, eventually acquires it and returns from Collect on
\* whatever path it takes, and the mutex ends up released.
C8_EveryPullCompletes ==
    <>[]((\A p \in Pulls : pc[p] = "done") /\ mutex = {})

\* every pull has returned, one of them after a failed fetch, and the mutex
\* is free
C8_Witness ==
    /\ \A p \in Pulls : pc[p] = "done"
    /\ \E p \in Pulls : path[p] = "getErr"
    /\ mutex = {}

(***************************************************************************)
(* C9                                                                      *)
(***************************************************************************)
\* the cumulative values the upstream reports for a node in its indices and
\* transport statistics
Reported(stats) ==
    UNION { { stats.Indices[g][f] : f \in DOMAIN stats.Indices[g] } : g \in DOMAIN stats.Indices }
      \cup { stats.Transport[f] : f \in DOMAIN stats.Transport }

\* C9: after any sequence of cycles, the value of every counter series, in
\* the registry and in the exposition, is a value the upstream reported for
\* that node in the latest fetch, whatever the earlier cycles held.
C9_CounterIsLastObserved ==
    \A p \in Pulls :
        /\ (pc[p] \in AfterPopulate /\ allStats[p] # None) =>
              \A name \in DOMAIN counters : \A lv \in DOMAIN counters[name] :
                 \E n \in NodesOn(NodeDoc(p), lv[2]) :
                    heap[counters[name][lv]] \in Reported(NodeDoc(p).Nodes[n])
        /\ \A w \in Exposition(p) : w.fam = "counters" =>
              \E n \in NodesOn(NodeDoc(p), w.lv[2]) : w.v \in Reported(NodeDoc(p).Nodes[n])

\* a cycle on the restarted node, whose counters are lower, follows a cycle
\* on the two-node document and has its counters exposed
C9_Witness ==
    \E p, q \in Pulls :
        /\ Complete(q) /\ path[q] = "ok" /\ allStats[q] = "twoNodes"
        /\ Complete(p) /\ path[p] = "ok" /\ allStats[p] = "restarted"
        /\ q < p
        /\ \E w \in Exposition(p) : \E x \in Exposition(q) :
              /\ w.fam = "counters" /\ x.fam = "counters"
              /\ w.name = x.name /\ w.lv = x.lv /\ w.v < x.v

(***************************************************************************)
(* C10                                                                     *)
(***************************************************************************)
\* C10: two cycles run in succession against the same node-stats and
\* cluster-health documents yield the same exposition.
C10_Idempotent ==
    \A p, q \in Pulls :
        ( /\ Complete(p) /\ Complete(q)
          /\ path[p] = "ok" /\ path[q] = "ok"
          /\ body[p] = body[q] /\ cBody[p] = cBody[q] )
        => Exposition(p) = Exposition(q)

(***************************************************************************)
(* C11                                                                     *)
(***************************************************************************)
\* the sum of f over the pulls of S
RECURSIVE SumOver(_, _)
SumOver(f, S) ==
    IF S = {} THEN 0
    ELSE LET q == CHOOSE x \in S : TRUE IN f[q] + SumOver(f, S \ {q})

\* the requests the node-stats endpoint has received
NodeRequests == SumOver([p \in Pulls |-> fetches[p].node], Pulls)

\* the pulls whose cycle is past its node-stats Get
Fetched == { p \in Pulls : pc[p] \notin {"lock", "reset", "get"} }

\* C11: every pull runs one cycle and every cycle makes its own node-stats
\* request: a cycle past its Get has requested the node stats exactly once,
\* whatever the registry held, so N completed pulls have made exactly N
\* node-stats requests; a cycle requests the cluster health at most once, and
\* exactly once when its node stats decoded; the document a cycle populates
\* from is the body that cycle read.
C11_OneFetchPerPull ==
    /\ \A p \in Pulls :
          /\ fetches[p].node = (IF p \in Fetched THEN 1 ELSE 0)
          /\ fetches[p].health \in {0, 1}
          /\ fetches[p].health = 1 <=> (allStats[p] # None /\ pc[p] \notin {"populate", "cget"})
          /\ allStats[p] # None => allStats[p] = body[p]
    /\ NodeRequests = Cardinality(Fetched)
    /\ (\A p \in Pulls : pc[p] = "done") => NodeRequests = NumPulls

\* every pull has returned, the last one after a cycle that had populated
\* the registry from the same document
C11_Witness ==
    /\ \A p \in Pulls : Complete(p) /\ path[p] = "ok" /\ body[p] = "restarted"
    /\ NodeRequests = NumPulls

(***************************************************************************)
(* C12                                                                     *)
(***************************************************************************)
\* the value of the series lv of gauge name, -1 when the gauge has no such
\* series
GaugeValue(name, lv) ==
    IF lv \in DOMAIN gauges[name] THEN heap[gauges[name][lv]] ELSE -1

\* C12: a cycle that decoded a cluster-health document sets
\* cluster_health_status to 0 for green, 1 for yellow, 2 for red and 0 for
\* any other status, the empty one included; whatever the status, the cycle
\* takes no error path: it sets the three other health gauges, reports, and
\* its exposition carries the four health series with these values.
C12_HealthStatusMapping ==
    \A p \in Pulls : clusterStat[p] # None =>
        LET h  == HealthDoc(p)
            lv == <<h.ClusterName, "unknown">>
            ordinal == IF h.Status = "yellow" THEN 1 ELSE IF h.Status = "red" THEN 2 ELSE 0
            expected == [ cluster_health_status |-> ordinal,
                          cluster_health_timed_out |-> IF h.TimedOut THEN 1 ELSE 0,
                          cluster_number_of_nodes_total |-> h.NumberOfNodes,
                          cluster_number_of_data_nodes_total |-> h.NumberOfDataNodes ]
        IN  /\ path[p] \in {None, "ok"}
            /\ pc[p] \in {"report", "sendUp", "unlock"} =>
                  \A name \in HealthGauges : GaugeValue(name, lv) = expected[name]
            /\ pc[p] \in {"sendUp", "unlock", "done"} => path[p] = "ok"
            /\ Complete(p) =>
                  \A name \in HealthGauges :
                     { w.v : w \in { x \in Exposition(p) : x.name = name } } = {expected[name]}

\* the responses of two pulls are complete, one on a status the switch has
\* no case for and one on red
C12_Witness ==
    \E p, q \in Pulls :
        /\ Complete(p) /\ clusterStat[p] = "purple"
        /\ Complete(q) /\ clusterStat[q] = "red"
        /\ \E w \in Exposition(p) : w.name = "cluster_health_status" /\ w.v = 0
        /\ \E w \in Exposition(q) : w.name = "cluster_health_status" /\ w.v = 2

(***************************************************************************)
(* C13                                                                     *)
(***************************************************************************)
\* the millisecond fields of a node that are exposed in seconds: series of
\* a counter vector -> field
MillisOf(cn, stats) ==
    [ k \in { <<"jvm_gc_collection_seconds_sum", <<cn, stats.Host, c>>>> :
                 c \in DOMAIN stats.JVM.GC.Collectors }
        |-> stats.JVM.GC.Collectors[k[2][3]].CollectionTime ]
    @@ ( <<"process_cpu_time_seconds_sum", <<cn, stats.Host, "total">>>> :> stats.Process.CPU.Total )
    @@ ( <<"process_cpu_time_seconds_sum", <<cn, stats.Host, "sys">>>> :> stats.Process.CPU.Sys )
    @@ ( <<"process_cpu_time_seconds_sum", <<cn, stats.Host, "user">>>> :> stats.Process.CPU.User )

\* C13: a millisecond field exposed under a _seconds_ name is exposed as the
\* upstream value divided by 1000 with the fraction kept: 1000 times the
\* exposed value is the upstream value (2500 ms is exposed as 2.5).
C13_SecondsKeepFraction ==
    \A p \in Pulls : allStats[p] # None =>
        \A w \in Exposition(p) : \A n \in DOMAIN NodeDoc(p).Nodes :
            LET ms == MillisOf(NodeDoc(p).ClusterName, NodeDoc(p).Nodes[n])
            IN  <<w.name, w.lv>> \in DOMAIN ms => w.v * 1000 = ms[<<w.name, w.lv>>]

(***************************************************************************)
(* C14                                                                     *)
(***************************************************************************)
\* the series pull p's cycle has set once it is about to report
SetKeys(p) ==
    LET ops == AllNodeOps(NodeDoc(p), SeqOf(DOMAIN NodeDoc(p).Nodes)) \o HealthOps(HealthDoc(p))
    IN  { <<ops[i].fam, ops[i].name, ops[i].lv>> : i \in DOMAIN ops }

\* the statements of Collect between the reset loops and the first set
BeforeFirstSet == {"get", "read", "unmarshal", "populate"}

\* C14: in every cycle the four families are reset after the lock is
\* acquired and before the fetch and the first set: from the fetch to the
\* first set the cycle holds the mutex and no vector of any family holds a
\* series, and the cycle has made no request before the reset is over; a
\* step that removes a series is the reset of the cycle that holds the
\* mutex, taken before that cycle's fetch, so no reset follows a set of the
\* same cycle; when the cycle reports, every series it set is in the
\* registry, a child the cycle created.
C14_ResetBeforeFetchAndSet ==
    /\ [](\A p \in Pulls :
            /\ pc[p] \in BeforeFirstSet =>
                  /\ p \in mutex
                  /\ \A fam \in Families : \A name \in DOMAIN Registry[fam] :
                        Registry[fam][name] = EmptyVec
            /\ pc[p] \in {"lock", "reset", "get"} => fetches[p].node = 0
            /\ pc[p] = "report" =>
                  /\ SetKeys(p) = RegistryKeys
                  /\ \A fam \in Families : \A c \in Children(Registry, fam) : c.id[1] = p)
    /\ [][ ~(RegistryKeys \subseteq RegistryKeys') =>
              \E p \in Pulls : /\ mutex = {p}
                               /\ pc[p] = "reset" /\ pc'[p] = "get"
                               /\ fetches[p].node = 0 ]_vars

\* a cycle has reset the registry a successful cycle had populated, and is
\* about to fetch
C14_Witness ==
    \E p, q \in Pulls :
        /\ pc[q] = "done" /\ path[q] = "ok"
        /\ pc[p] = "get" /\ RegistryKeys = {}

(***************************************************************************)
(* C15                                                                     *)
(***************************************************************************)
\* the series of every message pull p has sent so far, in the order sent
Sent(p) == [i \in DOMAIN Messages(p) |-> Keys(Messages(p)[i])]

\* C15: everything a cycle sends on its channel is sent while the cycle
\* holds the mutex and before it releases it: a step in which pull p sends
\* starts and ends with p holding the mutex; a message of series is sent
\* only when the cycle has decoded both documents and finished populating,
\* and it holds exactly the series the cycle set; once Collect has returned
\* the mutex is released and e.up has been sent, on every exit path.
C15_SendsUnderLock ==
    /\ [][ \A p \in Pulls : Sent(p)' # Sent(p) =>
              /\ mutex = {p} /\ mutex' = {p}
              /\ \E sent \in {Sent(p)'[Len(Sent(p)')]} :
                    /\ Sent(p)' = Append(Sent(p), sent)
                    /\ sent # {UpKey} =>
                          /\ allStats[p] # None /\ clusterStat[p] # None
                          /\ sent = SetKeys(p)
                          /\ UpSends(p) = 0 ]_vars
    /\ [](\A p \in Pulls : pc[p] = "done" => p \notin mutex /\ UpSends(p) = 1)

\* a successful cycle has sent its series and e.up and still holds the
\* mutex, after a cycle that returned on a failed fetch
C15_Witness ==
    \E p, q \in Pulls :
        /\ pc[q] = "done" /\ path[q] = "getErr" /\ UpSends(q) = 1
        /\ p \in mutex /\ path[p] = "ok" /\ Len(Messages(p)) = 2

(***************************************************************************)
(* C16                                                                     *)
(***************************************************************************)
\* C16: after a successful cycle, for every node of the fetched document,
\* every scalar gauge and counter of the catalog other than the four
\* cluster-health gauges holds a series keyed by the document's cluster name
\* and the node's host.
C16_EveryNodeScalarPopulated ==
    \A p \in Pulls : Succeeded(p) =>
        \A n \in DOMAIN NodeDoc(p).Nodes :
            LET lv == <<NodeDoc(p).ClusterName, NodeDoc(p).Nodes[n].Host>>
            IN  /\ \A name \in gaugeMetrics \ HealthGauges : lv \in DOMAIN gauges[name]
                /\ \A name \in counterMetrics : lv \in DOMAIN counters[name]

(***************************************************************************)
(* C17                                                                     *)
(***************************************************************************)
\* the cycles that created the series the registry holds
Creators == UNION { { c.id[1] : c \in Children(Registry, fam) } : fam \in Families }

\* C17: in every registry state, the series were all set by one cycle, the
\* latest that populated (the one that holds the mutex, if one does and has
\* reset); every series of a cluster-health gauge has the labels (cluster
\* name of that cycle's health document, "unknown"); every other series has
\* the labels (cluster name of that cycle's node-stats document, host of a
\* node of that document), followed for a labelled vector by one value of
\* that node's dimension, and by nothing for a scalar.
C17_LabelRule ==
    /\ Cardinality(Creators) <= 1
    /\ \A p \in Pulls : (InCollect(p) /\ pc[p] # "reset") => Creators \subseteq {p}
    /\ \A fam \in Families : \A c \in Children(Registry, fam) :
          LET q == c.id[1]
          IN  IF c.name \in HealthGauges
              THEN /\ clusterStat[q] # None
                   /\ c.lv = <<HealthDoc(q).ClusterName, "unknown">>
              ELSE /\ allStats[q] # None
                   /\ c.lv[1] = NodeDoc(q).ClusterName
                   /\ Len(c.lv) = Len(LabelNames(fam, c.name))
                   /\ \E n \in NodesOn(NodeDoc(q), c.lv[2]) :
                         fam \in {"gaugeVecs", "counterVecs"} =>
                            c.lv[3] \in Dimension(c.name, NodeDoc(q).Nodes[n])

\* the registry holds the health series and the series of the one node of
\* the latest document, after a cycle on a document with two nodes
C17_Witness ==
    \E p, q \in Pulls :
        /\ Complete(q) /\ path[q] = "ok" /\ allStats[q] = "twoNodes"
        /\ Succeeded(p) /\ allStats[p] = "restarted"
        /\ <<"es", "unknown">> \in DOMAIN gauges["cluster_health_status"]
        /\ <<"es", "a", "G1">> \in DOMAIN counterVecs["jvm_gc_collection_seconds_count"]

(***************************************************************************)
(* C18                                                                     *)
(***************************************************************************)
\* C18: polling the local node only, a decoded node-stats document with a
\* number of nodes other than 1 does not end the cycle: availability is 1
\* and stays 1, the cycle takes no exit but a cluster-health failure, every
\* node of the document is populated, the cluster health is requested, and
\* when that succeeds the exposition carries availability 1, the health
\* series and the series of every node.
C18_NodeCountNotFatal ==
    \A p \in Pulls :
        (allStats[p] # None /\ UnexpectedNodeCount(allNodes, NodeDoc(p))) =>
            LET doc  == NodeDoc(p)
                keys == { <<doc.ClusterName, doc.Nodes[n].Host>> : n \in DOMAIN doc.Nodes }
            IN  /\ upBy[p] = 1
                /\ InCollect(p) => up = 1
                /\ path[p] \in {None, "ok"} \cup HealthErrs
                /\ pc[p] \in AfterPopulate =>
                      /\ DOMAIN gauges["indices_docs"] = keys
                      /\ DOMAIN counters["transport_rx_packets_total"] = keys
                /\ pc[p] \notin {"populate", "cget"} => fetches[p].health = 1
                /\ (clusterStat[p] # None /\ pc[p] \in {"sendUp", "unlock", "done"}) =>
                      path[p] = "ok"
                /\ (Complete(p) /\ path[p] = "ok") =>
                      /\ \E w \in Exposition(p) : w.name = "up" /\ w.v = 1
                      /\ \E w \in Exposition(p) : w.name = "cluster_health_status"
                      /\ { w.lv : w \in { x \in Exposition(p) : x.name = "indices_docs" } } = keys

\* two responses are complete, one from a document without nodes and one
\* from a document with two
C18_Witness ==
    \E p, q \in Pulls :
        /\ Complete(p) /\ path[p] = "ok" /\ allStats[p] = "noNodes"
        /\ Complete(q) /\ path[q] = "ok" /\ allStats[q] = "twoNodes"
        /\ \E w \in Exposition(q) : w.name = "indices_docs" /\ w.lv = <<"es", "b">>

(***************************************************************************)
(* C19                                                                     *)
(***************************************************************************)
\* the catalog map a family's vectors are declared in: the declared names
CatalogNames ==
    [ gauges |-> gaugeMetrics, counters |-> counterMetrics,
      gaugeVecs |-> DOMAIN gaugeVecMetrics, counterVecs |-> DOMAIN counterVecMetrics ]

\* the number of label values a vector of a family expects
Arity(fam, name) ==
    2 + ( CASE fam = "gaugeVecs"   -> Len(gaugeVecMetrics[name])
            [] fam = "counterVecs" -> Len(counterVecMetrics[name])
            [] OTHER               -> 0 )

\* the calls pull p's cycle makes on the documents it has decoded
CallsOf(p) ==
    (IF allStats[p] = None THEN <<>>
     ELSE AllNodeOps(NodeDoc(p), SeqOf(DOMAIN NodeDoc(p).Nodes)))
    \o (IF clusterStat[p] = None THEN <<>> ELSE HealthOps(HealthDoc(p)))

\* C19: the arity precondition of set always holds: every family holds a
\* vector for exactly the names of its catalog map; every call a cycle makes
\* names a vector declared in the map of the family it is looked up in and
\* passes 2 label values to a scalar and 2 plus the number of declared
\* extra labels to a labelled vector; every series of the registry has that
\* many label values.
C19_ArityRespected ==
    /\ \A fam \in Families : DOMAIN Registry[fam] = CatalogNames[fam]
    /\ \A fam \in Families : \A name \in DOMAIN Registry[fam] :
          /\ Len(LabelNames(fam, name)) = Arity(fam, name)
          /\ \A lv \in DOMAIN Registry[fam][name] : Len(lv) = Arity(fam, name)
    /\ \A p \in Pulls : \A calls \in {CallsOf(p)} : \A i \in DOMAIN calls :
          /\ calls[i].name \in CatalogNames[calls[i].fam]
          /\ Len(calls[i].lv) = Arity(calls[i].fam, calls[i].name)

\* a cycle has made every call, on a node with a collector, a breaker and
\* a thread pool and on the cluster health
C19_Witness ==
    \E p \in Pulls :
        /\ Succeeded(p)
        /\ <<"es", "a", "request">> \in DOMAIN gaugeVecs["breakers_limit_size_bytes"]
        /\ <<"es", "a", "index">> \in DOMAIN counterVecs["thread_pool_rejected_count"]
        /\ <<"es", "unknown">> \in DOMAIN gauges["cluster_number_of_nodes_total"]
        /\ Len(CallsOf(p)) = 54

(***************************************************************************)
(* C20                                                                     *)
(***************************************************************************)
\* the series the registry holds for the nodes, with their values
NodeSeries ==
    { [name |-> c.name, lv |-> c.lv, v |-> heap[c.id]] :
        c \in { x \in UNION { Children(Registry, fam) : fam \in Families } :
                   x.name \notin HealthGauges } }

\* C20: within a node snapshot, series of different names are populated
\* from different upstream fields: every field of a node holds a value of
\* its own, so after the populate loop two series with the same label tuple
\* and different names never hold the same value.
C20_DistinctFields ==
    \A p \in Pulls : (pc[p] \in AfterPopulate /\ allStats[p] # None) =>
        \A s1, s2 \in NodeSeries :
            (s1.name # s2.name /\ s1.lv = s2.lv) => s1.v # s2.v

====
